---- MODULE Spec2Model ----
(***************************************************************************)
(* MfaText: one editor window (MfaTextWindow) with its EditorBuffer and    *)
(* SearchContext, the Gtk text buffer behind them, and the files on disk.  *)
(*                                                                         *)
(* Every handler of the program is an operator from a world (the record    *)
(* World below) to the world it leaves behind, so that a handler that      *)
(* calls another one is the composition of the two.  An action of the      *)
(* specification applies one handler to the current world.                 *)
(***************************************************************************)
EXTENDS Integers, Sequences, FiniteSets, TLC

VARIABLES
    hasGtkSource,   \* _HAS_GTKSOURCE: the buffer is a GtkSource.Buffer (else a Gtk.TextBuffer)
    buf,            \* the EditorBuffer the window holds (self._editor_buffer) and its Gtk buffer
    sc,             \* the SearchContext the window holds (self._search_context)
    win,            \* the MfaTextWindow: widgets, pending dialogs and timers
    disk,           \* the files: path -> [exists, content, mtime]
    clock,          \* the file system's clock
    out             \* what the last operation gave back: exception raised, dialog and toast shown

vars == <<hasGtkSource, buf, sc, win, disk, clock, out>>

(***************************************************************************)
(* Bounds of the model.                                                    *)
(***************************************************************************)
MaxLen == 1         \* Spec: longest buffer content
MaxUndo == 1        \* Spec: deepest undo history
MaxPending == 1     \* Spec: most dialogs and 500 ms timers pending at once
MaxText == 1        \* SpecBuffer: longest buffer content
MaxHistory == 1     \* SpecBuffer: deepest undo history
MaxSearchLen == 2   \* SpecSearch: longest buffer content
MaxSearchEdits == 1 \* SpecSearch: most edits and replacements in one run
MaxFindLen == 2     \* SpecFind: longest buffer content
MaxFindEdits == 1   \* SpecFind: most replacements in one run
MaxClock == 2       \* SpecMonitor: latest time of the clock (it starts at 1)
MaxEvents == 2      \* SpecMonitor: most file-monitor events waiting in the main loop

NoPath == "none"
Paths == {"p1", "p2"}
Chars == {"a", "b"}
Untitled == "Untitled"

RemoveRange(s, i, j) == SubSeq(s, 1, i) \o SubSeq(s, j + 1, Len(s))
InsertAt(s, i, t) == SubSeq(s, 1, i) \o t \o SubSeq(s, i + 1, Len(s))

(***************************************************************************)
(* The outcome of one operation.                                           *)
(***************************************************************************)
\* call, path: the EditorBuffer / SearchContext method the operation called last and
\* the path it was given; raised: the exception that left the operation; caught: the
\* exception an except clause swallowed last; errorDialog, toast: what the window
\* showed; answered: the response an unsaved-changes dialog got; ok, start, end,
\* wrapped: what find_next, find_previous and replace were given and gave back;
\* count: the number replace_all gave back (-1: None).
NoOut ==
    [call |-> "none", path |-> "none", raised |-> "none", caught |-> "none",
     errorDialog |-> "none", toast |-> "none", answered |-> "none",
     ok |-> FALSE, start |-> -1, end |-> -1, wrapped |-> FALSE, count |-> -1]

Called(w, method, p) == [w EXCEPT !.out.call = method, !.out.path = p]

Raise(w, e) == [w EXCEPT !.out.raised = e]
Raised(w) == w.out.raised # "none"
\* An except clause that swallows the exception.
Caught(w) == [w EXCEPT !.out.raised = "none", !.out.caught = w.out.raised]


(***************************************************************************)
(* MfaTextWindow: the title and the Save button.  They come before the Gtk *)
(* buffer because the buffer's "modified-changed" signal runs them.        *)
(***************************************************************************)
\* _update_title: the label shows "* " when modified, then the file's name or Untitled.
update_title(w) ==
    IF ~w.win.hasBuffer
    THEN [w EXCEPT !.win.titleName = "MfaText", !.win.titleMod = FALSE]
    ELSE [w EXCEPT !.win.titleMod = w.buf.modified,
                   !.win.titleName = IF w.buf.filePath # NoPath
                                     THEN w.buf.filePath ELSE Untitled]

\* _on_buffer_modified_changed: the Save button follows the buffer's flag.
on_buffer_modified_changed(w) ==
    update_title([w EXCEPT !.win.saveSensitive = w.buf.modified])

(***************************************************************************)
(* The Gtk text buffer (GTK 4): content, the modified flag and its signal, *)
(* the insert and selection-bound marks, and the undo history as groups of *)
(* insert / delete records.  savePoint is the depth of the undo history at *)
(* which the buffer was last marked unmodified (-1: no such depth).        *)
(***************************************************************************)
NewGtkBuffer ==
    [content |-> <<>>, modified |-> FALSE, undo |-> <<>>, redo |-> <<>>,
     savePoint |-> -1, insert |-> 0, bound |-> 0, connected |-> FALSE]

\* "modified-changed" reaches the window once the window has connected to the buffer.
emit_modified_changed(w) ==
    IF w.buf.connected THEN on_buffer_modified_changed(w) ELSE w

\* The flag changes and the signal is emitted only when the value differs.
mark_modified(w, v) ==
    IF w.buf.modified = v THEN w
    ELSE emit_modified_changed([w EXCEPT !.buf.modified = v])

\* Gtk.TextBuffer.set_modified
gtk_set_modified(w, v) ==
    IF w.buf.modified = v THEN w
    ELSE mark_modified([w EXCEPT !.buf.savePoint = IF v THEN -1 ELSE Len(w.buf.undo)], v)

\* Gtk.TextBuffer.select_range and place_cursor
select_range(w, ins, bound) == [w EXCEPT !.buf.insert = ins, !.buf.bound = bound]
place_cursor(w, where) == select_range(w, where, where)

\* Gtk.TextBuffer.set_text: an irreversible action, it empties both histories.
gtk_set_text(w, text) ==
    LET changed == w.buf.content # <<>> \/ text # <<>>
        w1 == [w EXCEPT !.buf.content = text, !.buf.undo = <<>>, !.buf.redo = <<>>,
                        !.buf.savePoint = -1,
                        !.buf.insert = Len(text), !.buf.bound = Len(text)]
    IN  IF changed THEN mark_modified(w1, TRUE) ELSE w1

ApplyRec(s, r) ==
    IF r.kind = "ins" THEN InsertAt(s, r.pos, r.text)
    ELSE RemoveRange(s, r.pos, r.pos + Len(r.text))

RevertRec(s, r) ==
    IF r.kind = "ins" THEN RemoveRange(s, r.pos, r.pos + Len(r.text))
    ELSE InsertAt(s, r.pos, r.text)

RECURSIVE ApplyGroup(_, _)
ApplyGroup(s, g) ==
    IF g = <<>> THEN s ELSE ApplyGroup(ApplyRec(s, Head(g)), Tail(g))

RECURSIVE RevertGroup(_, _)
RevertGroup(s, g) ==
    IF g = <<>> THEN s
    ELSE RevertGroup(RevertRec(s, g[Len(g)]), SubSeq(g, 1, Len(g) - 1))

\* Where the cursor is left by a record applied (after the inserted text, or where
\* the deleted text was) and by a record reverted.
CursorAfter(r) == IF r.kind = "ins" THEN r.pos + Len(r.text) ELSE r.pos
CursorBefore(r) == IF r.kind = "ins" THEN r.pos ELSE r.pos + Len(r.text)

\* Where a mark at offset m is after the record r was applied: text inserted at or
\* before the mark pushes it right, text deleted before it pulls it left, and a
\* mark inside the deleted text lands where the text was.
MarkAfter(m, r) ==
    IF r.kind = "ins" THEN (IF m < r.pos THEN m ELSE m + Len(r.text))
    ELSE IF m <= r.pos THEN m
    ELSE IF m >= r.pos + Len(r.text) THEN m - Len(r.text)
    ELSE r.pos

RECURSIVE MarkAfterGroup(_, _)
MarkAfterGroup(m, g) ==
    IF g = <<>> THEN m ELSE MarkAfterGroup(MarkAfter(m, Head(g)), Tail(g))

\* A faulty variant of gtk_user_action, for C13: the redo history outlives the edit.
gtk_user_action_keeps_redo(w, g) ==
    LET w1 == [w EXCEPT !.buf.content = ApplyGroup(w.buf.content, g),
                        !.buf.undo = Append(w.buf.undo, g),
                        !.buf.insert = MarkAfterGroup(w.buf.insert, g),
                        !.buf.bound = MarkAfterGroup(w.buf.bound, g)]
    IN  mark_modified(w1, TRUE)

\* One user action on the buffer: the group g of records is applied, pushed on the
\* undo history, and the redo history is dropped.
gtk_user_action(w, g) ==
    LET w1 == [w EXCEPT !.buf.content = ApplyGroup(w.buf.content, g),
                        !.buf.undo = Append(w.buf.undo, g),
                        !.buf.redo = <<>>,
                        !.buf.savePoint = IF @ > Len(w.buf.undo) THEN -1 ELSE @,
                        !.buf.insert = MarkAfterGroup(w.buf.insert, g),
                        !.buf.bound = MarkAfterGroup(w.buf.bound, g)]
    IN  mark_modified(w1, TRUE)

\* The kind of the deletion of the character at offset i, from where the cursor is:
\* right after it (Backspace, "bs"), right before it (Delete, "dk"), or elsewhere.
DeleteKind(w, i) ==
    IF w.buf.insert # w.buf.bound THEN "del"
    ELSE IF w.buf.insert = i + 1 THEN "bs"
    ELSE IF w.buf.insert = i THEN "dk"
    ELSE "del"

\* The history may join a one-character record r to the record on top of it: an
\* insertion that begins where the top insertion ends, a Backspace that ends where
\* the top Backspace begins, a Delete at the offset of the top Delete.  Groups of
\* several records and the record the buffer was saved at take nothing more.
Chains(w, r) ==
    /\ w.buf.undo # <<>>
    /\ w.buf.savePoint # Len(w.buf.undo)
    /\ Len(w.buf.undo[Len(w.buf.undo)]) = 1
    /\ Len(r.text) = 1
    /\ LET top == w.buf.undo[Len(w.buf.undo)][1]
       IN  /\ top.kind = r.kind
           /\ \/ r.kind = "ins" /\ top.pos + Len(top.text) = r.pos
              \/ r.kind = "bs" /\ r.pos + 1 = top.pos
              \/ r.kind = "dk" /\ r.pos = top.pos

Joined(top, r) ==
    IF r.kind = "bs" THEN [top EXCEPT !.pos = r.pos, !.text = r.text \o @]
    ELSE [top EXCEPT !.text = @ \o r.text]

\* One edit of one record r.  Whether the history joins it to the record on top
\* depends, where Chains allows it, on more than is kept here (white space, the
\* marks the modified flag leaves in the history): join is either outcome.
gtk_edit(w, r, join) ==
    IF join /\ Chains(w, r)
    THEN LET n == Len(w.buf.undo)
             w1 == [w EXCEPT !.buf.content = ApplyRec(w.buf.content, r),
                             !.buf.undo[n] = <<Joined(w.buf.undo[n][1], r)>>,
                             !.buf.redo = <<>>,
                             !.buf.savePoint = IF @ >= n THEN -1 ELSE @,
                             !.buf.insert = MarkAfter(w.buf.insert, r),
                             !.buf.bound = MarkAfter(w.buf.bound, r)]
         IN  mark_modified(w1, TRUE)
    ELSE gtk_user_action(w, <<r>>)

\* A faulty variant of gtk_undo, for C11: the group is moved to the redo history
\* and the text is left as it is.
gtk_undo_keeps_text(w) ==
    IF w.buf.undo = <<>> THEN w
    ELSE LET g == w.buf.undo[Len(w.buf.undo)]
             rest == SubSeq(w.buf.undo, 1, Len(w.buf.undo) - 1)
             w1 == [w EXCEPT !.buf.undo = rest,
                             !.buf.redo = Append(w.buf.redo, g),
                             !.buf.insert = CursorBefore(g[1]),
                             !.buf.bound = CursorBefore(g[1])]
         IN  mark_modified(w1, w.buf.savePoint # Len(rest))

\* Gtk.TextBuffer.undo
gtk_undo(w) ==
    IF w.buf.undo = <<>> THEN w
    ELSE LET g == w.buf.undo[Len(w.buf.undo)]
             rest == SubSeq(w.buf.undo, 1, Len(w.buf.undo) - 1)
             w1 == [w EXCEPT !.buf.content = RevertGroup(w.buf.content, g),
                             !.buf.undo = rest,
                             !.buf.redo = Append(w.buf.redo, g),
                             !.buf.insert = CursorBefore(g[1]),
                             !.buf.bound = CursorBefore(g[1])]
         IN  mark_modified(w1, w.buf.savePoint # Len(rest))

\* A faulty variant of gtk_redo, for C12: the group goes back on the undo history
\* and the text is left as the undo made it.
gtk_redo_keeps_text(w) ==
    IF w.buf.redo = <<>> THEN w
    ELSE LET g == w.buf.redo[Len(w.buf.redo)]
             w1 == [w EXCEPT !.buf.undo = Append(w.buf.undo, g),
                             !.buf.redo = SubSeq(w.buf.redo, 1, Len(w.buf.redo) - 1),
                             !.buf.insert = CursorAfter(g[Len(g)]),
                             !.buf.bound = CursorAfter(g[Len(g)])]
         IN  mark_modified(w1, w.buf.savePoint # Len(w.buf.undo) + 1)

\* Gtk.TextBuffer.redo
gtk_redo(w) ==
    IF w.buf.redo = <<>> THEN w
    ELSE LET g == w.buf.redo[Len(w.buf.redo)]
             w1 == [w EXCEPT !.buf.content = ApplyGroup(w.buf.content, g),
                             !.buf.undo = Append(w.buf.undo, g),
                             !.buf.redo = SubSeq(w.buf.redo, 1, Len(w.buf.redo) - 1),
                             !.buf.insert = CursorAfter(g[Len(g)]),
                             !.buf.bound = CursorAfter(g[Len(g)])]
         IN  mark_modified(w1, w.buf.savePoint # Len(w.buf.undo) + 1)

(***************************************************************************)
(* utils/file_ops.py                                                       *)
(***************************************************************************)
\* What the file system does to one load or save: "ok"; the open fails
\* ("read_error", "write_error"); or the file is removed by another program right
\* after it was read ("vanished"), so that the stat() that follows fails.
IoLoad == {"ok", "read_error", "vanished"}
IoSave == {"ok", "write_error"}

\* load_file: [raised, text]
load_file(d, p, io) ==
    IF ~d[p].exists THEN [raised |-> "FileNotFoundError", text |-> <<>>]
    ELSE IF io = "read_error" THEN [raised |-> "OSError", text |-> <<>>]
    ELSE [raised |-> "none", text |-> d[p].content]

\* save_file: the file is written and stamped with the time of the clock, or IOError
\* is raised and nothing is written.
save_file(w, p, content, io) ==
    IF io = "write_error" THEN Raise(w, "IOError")
    ELSE [w EXCEPT !.disk[p] = [exists |-> TRUE, content |-> content, mtime |-> w.clock]]

\* Another program removes the file.
NoFile == [exists |-> FALSE, content |-> <<>>, mtime |-> 0]
Vanish(w, p) == [w EXCEPT !.disk[p] = NoFile]

(***************************************************************************)
(* core/buffer.py: EditorBuffer                                            *)
(***************************************************************************)
\* The fields __init__ sets, around a fresh Gtk buffer.  events are the "changed"
\* signals of the file monitor that wait in the main loop, idle is the number of
\* _on_file_changed_externally calls that GLib.idle_add has scheduled.
NewEditorBuffer(p) ==
    [f \in DOMAIN NewGtkBuffer \cup {"filePath", "monitor", "mtime", "events", "idle"} |->
        IF f = "filePath" THEN p
        ELSE IF f = "monitor" THEN NoPath
        ELSE IF f = "mtime" THEN 0
        ELSE IF f = "events" THEN <<>>
        ELSE IF f = "idle" THEN 0
        ELSE NewGtkBuffer[f]]

\* _setup_file_monitoring: the monitor (the old one cancelled, which drops the
\* signals it has not emitted yet) watches file_path.
setup_file_monitoring(w) ==
    IF w.buf.filePath = NoPath THEN w
    ELSE [w EXCEPT !.buf.monitor = w.buf.filePath, !.buf.events = <<>>]

\* The event types of Gio.FileMonitorEvent that a write or a removal brings.
EventTypes == {"CHANGED", "CHANGES_DONE_HINT", "DELETED"}

\* A faulty variant of _on_file_changed, for C24: every change event schedules a
\* notification, whatever the modification time.
on_file_changed_every_event(w, event_type) ==
    LET w0 == Called(w, "_on_file_changed", w.buf.filePath)
    IN  IF w.buf.filePath = NoPath \/ ~w.disk[w.buf.filePath].exists THEN w0
        ELSE IF event_type \notin {"CHANGED", "CHANGES_DONE_HINT"} THEN w0
        ELSE [w0 EXCEPT !.buf.mtime = w.disk[w.buf.filePath].mtime, !.buf.idle = @ + 1]

\* _on_file_changed: the "changed" signal of the monitor.  The file looked at is
\* file_path, whichever file the monitor watches.
on_file_changed(w, event_type) ==
    LET w0 == Called(w, "_on_file_changed", w.buf.filePath)
    IN  IF w.buf.filePath = NoPath \/ ~w.disk[w.buf.filePath].exists THEN w0
        ELSE IF event_type \notin {"CHANGED", "CHANGES_DONE_HINT"} THEN w0
        ELSE LET new_mtime == w.disk[w.buf.filePath].mtime
             IN  IF new_mtime > w.buf.mtime
                 THEN [w0 EXCEPT !.buf.mtime = new_mtime, !.buf.idle = @ + 1]
                 ELSE w0

\* _on_file_changed_externally, run from the idle queue: pass.
on_file_changed_externally(w) ==
    [Called(w, "_on_file_changed_externally", w.buf.filePath) EXCEPT !.buf.idle = @ - 1]

\* A faulty variant of not_undoable_action, for C7: the call empties both histories,
\* as the comment "Reset undo stack after save" has it.
not_undoable_action_resets(w) ==
    [w EXCEPT !.buf.undo = <<>>, !.buf.redo = <<>>, !.buf.savePoint = 0]

\* begin_not_undoable_action(); end_not_undoable_action(), inside try / except
\* (AttributeError, TypeError).  The buffer is a GtkSource 5 buffer (the version the
\* import requires), which has no such method: the call raises AttributeError, the
\* except clause swallows it, and the history stays as it is.
not_undoable_action(w) ==
    IF w.gs THEN Caught(Raise(w, "AttributeError")) ELSE w

\* A faulty variant of EditorBuffer.load_file, for C8: set_modified(False) is left out.
load_file_keeps_flag(w, p, io) ==
    LET w0 == Called(w, "load_file", p)
        r == load_file(w.disk, p, io)
    IN  IF r.raised # "none" THEN Raise(w0, r.raised)
        ELSE LET w1 == gtk_set_text(w0, r.text)
                 w3 == [w1 EXCEPT !.buf.filePath = p]
             IN  IF io = "vanished" THEN Raise(Vanish(w3, p), "FileNotFoundError")
                 ELSE setup_file_monitoring(
                          not_undoable_action([w3 EXCEPT !.buf.mtime = w.disk[p].mtime]))

\* EditorBuffer.load_file
EditorBuffer_load_file(w, p, io) ==
    LET w0 == Called(w, "load_file", p)
        r == load_file(w.disk, p, io)
    IN  IF r.raised # "none" THEN Raise(w0, r.raised)
        ELSE LET w1 == gtk_set_text(w0, r.text)
                 w2 == gtk_set_modified(w1, FALSE)
                 w3 == [w2 EXCEPT !.buf.filePath = p]
             IN  IF io = "vanished" THEN Raise(Vanish(w3, p), "FileNotFoundError")
                 ELSE setup_file_monitoring(
                          not_undoable_action([w3 EXCEPT !.buf.mtime = w.disk[p].mtime]))

\* EditorBuffer.__init__: the world with the new buffer in place of the old one.
EditorBuffer_init(w, p, io) ==
    LET w0 == [w EXCEPT !.buf = NewEditorBuffer(p)]
    IN  IF p # NoPath /\ w.disk[p].exists THEN EditorBuffer_load_file(w0, p, io) ELSE w0

\* A faulty variant of EditorBuffer.save_file, for C9: with no path to save to, the
\* buffer is marked saved and nothing is raised.
save_file_marks_saved(w, p, io) ==
    LET w0 == Called(w, "save_file", p)
        save_path == IF p # NoPath THEN p ELSE w.buf.filePath
    IN  IF save_path = NoPath THEN gtk_set_modified(w0, FALSE)
        ELSE LET r == save_file(w0, save_path, w.buf.content, io)
             IN  IF Raised(r) THEN r
                 ELSE LET w1 == gtk_set_modified(r, FALSE)
                          w2 == [w1 EXCEPT !.buf.filePath = save_path]
                      IN  not_undoable_action(
                              [w2 EXCEPT !.buf.mtime = r.disk[save_path].mtime])

\* EditorBuffer.save_file
EditorBuffer_save_file(w, p, io) ==
    LET w0 == Called(w, "save_file", p)
        save_path == IF p # NoPath THEN p ELSE w.buf.filePath
    IN  IF save_path = NoPath THEN Raise(w0, "ValueError")
        ELSE LET r == save_file(w0, save_path, w.buf.content, io)
             IN  IF Raised(r) THEN r
                 ELSE LET w1 == gtk_set_modified(r, FALSE)
                          w2 == [w1 EXCEPT !.buf.filePath = save_path]
                      IN  not_undoable_action(
                              [w2 EXCEPT !.buf.mtime = r.disk[save_path].mtime])

\* A faulty variant of can_undo, for C15: the query reads 'can-redo'.
can_undo_reads_redo(w) == IF w.gs THEN w.buf.redo # <<>> ELSE FALSE

\* EditorBuffer.can_undo / can_redo
can_undo(w) == IF w.gs THEN w.buf.undo # <<>> ELSE FALSE
can_redo(w) == IF w.gs THEN w.buf.redo # <<>> ELSE FALSE

\* A faulty variant of EditorBuffer.undo, for C14: can-undo is not looked at, and an
\* undo with nothing to undo still marks the buffer modified.
undo_unguarded(w) ==
    LET w0 == Called(w, "undo", NoPath)
    IN  IF ~w.gs THEN w0
        ELSE IF w.buf.undo = <<>> THEN mark_modified(w0, TRUE)
        ELSE gtk_undo(w0)

\* EditorBuffer.undo / redo
EditorBuffer_undo(w) ==
    LET w0 == Called(w, "undo", NoPath)
    IN  IF w.gs /\ w.buf.undo # <<>> THEN gtk_undo(w0) ELSE w0
EditorBuffer_redo(w) ==
    LET w0 == Called(w, "redo", NoPath)
    IN  IF w.gs /\ w.buf.redo # <<>> THEN gtk_redo(w0) ELSE w0

\* EditorBuffer.cleanup
cleanup(w) == [w EXCEPT !.buf.monitor = NoPath, !.buf.events = <<>>]


(***************************************************************************)
(* core/search.py: SearchContext.  buffer tells whether the context was    *)
(* made for the buffer the window holds now ("cur") or for one it has      *)
(* dropped since ("old").  text, caseSensitive and wrapAround are the      *)
(* GtkSource.SearchSettings.                                               *)
(***************************************************************************)
NoSearchContext ==
    [exists |-> FALSE, buffer |-> "none", hasContext |-> FALSE,
     text |-> <<>>, caseSensitive |-> FALSE, wrapAround |-> FALSE]

\* SearchContext.__init__: fresh GtkSource.SearchSettings search for nothing.
NewSearchContext(gs) ==
    [exists |-> TRUE, buffer |-> "cur", hasContext |-> gs,
     text |-> <<>>, caseSensitive |-> FALSE, wrapAround |-> FALSE]

\* A faulty variant of set_search_text, for C16: an empty text leaves the search
\* text of the settings as it was.
set_search_text_keeps_old(w, text, case_sensitive, wrap_around) ==
    IF ~w.gs \/ ~w.sc.hasContext THEN w
    ELSE [w EXCEPT !.sc.text = IF text = <<>> THEN @ ELSE text,
                   !.sc.caseSensitive = case_sensitive,
                   !.sc.wrapAround = wrap_around]

\* SearchContext.set_search_text
set_search_text(w, text, case_sensitive, wrap_around) ==
    IF ~w.gs \/ ~w.sc.hasContext THEN w
    ELSE [w EXCEPT !.sc.text = text,
                   !.sc.caseSensitive = case_sensitive,
                   !.sc.wrapAround = wrap_around]

\* Case folding of the GtkSource search when case_sensitive is off.
Fold(c) == IF c = "A" THEN "a" ELSE c

\* The search text occurs in s at offset i, under the settings of the context.
OccursAt(s, c, i) ==
    /\ c.text # <<>>
    /\ i >= 0
    /\ i + Len(c.text) <= Len(s)
    /\ \A k \in 1..Len(c.text) :
           IF c.caseSensitive THEN s[i + k] = c.text[k]
           ELSE Fold(s[i + k]) = Fold(c.text[k])

\* The offsets at or after i where the search text occurs.
OccurrencesFrom(s, c, i) == {j \in i..Len(s) : OccursAt(s, c, j)}

SetMin(S) == CHOOSE x \in S : \A y \in S : x <= y

\* GtkSource.SearchContext.forward: the first occurrence at or after start; with
\* wrap_around, none there, the first one of the buffer.  [ok, start, end, wrapped]
gs_forward(s, c, start) ==
    LET after == OccurrencesFrom(s, c, start)
        all == OccurrencesFrom(s, c, 0)
    IN  IF after # {}
        THEN [ok |-> TRUE, start |-> SetMin(after),
              end |-> SetMin(after) + Len(c.text), wrapped |-> FALSE]
        ELSE IF c.wrapAround /\ all # {}
        THEN [ok |-> TRUE, start |-> SetMin(all),
              end |-> SetMin(all) + Len(c.text), wrapped |-> TRUE]
        ELSE [ok |-> FALSE, start |-> -1, end |-> -1, wrapped |-> FALSE]

\* The result of a search or a replace, given back to the caller.
Returned(w, method, r) ==
    [w EXCEPT !.out.call = method, !.out.ok = r.ok, !.out.start = r.start,
              !.out.end = r.end, !.out.wrapped = r.wrapped]

\* SearchContext.find_next; start_iter = -1 stands for None.
SearchContext_find_next(w, start_iter) ==
    IF ~w.gs \/ ~w.sc.hasContext
    THEN Returned(w, "find_next", [ok |-> FALSE, start |-> -1, end |-> -1, wrapped |-> FALSE])
    ELSE LET sel_end == IF w.buf.insert > w.buf.bound THEN w.buf.insert ELSE w.buf.bound
             from == IF start_iter # -1 THEN start_iter
                     ELSE IF w.buf.insert # w.buf.bound
                     THEN (IF sel_end < Len(w.buf.content) THEN sel_end + 1 ELSE sel_end)
                     ELSE w.buf.insert
         IN  Returned(w, "find_next", gs_forward(w.buf.content, w.sc, from))

\* A faulty variant of GtkSource.SearchContext.replace, for C3: the span is replaced
\* without a look at what it holds.
gs_replace_unchecked(w, match_start, match_end, replace_text) ==
    LET span == [ok |-> TRUE, start |-> match_start, end |-> match_end, wrapped |-> FALSE]
        del == [kind |-> "del", pos |-> match_start,
                text |-> SubSeq(w.buf.content, match_start + 1, match_end)]
        ins == [kind |-> "ins", pos |-> match_start, text |-> replace_text]
        g == IF replace_text = <<>> THEN <<del>> ELSE <<del, ins>>
    IN  Returned(gtk_user_action(w, g), "replace", span)

\* GtkSource.SearchContext.replace: the span is replaced, as one user action, when
\* the first occurrence at or after match_start is the span itself; if not, FALSE.
gs_replace(w, match_start, match_end, replace_text) ==
    LET r == gs_forward(w.buf.content, [w.sc EXCEPT !.wrapAround = FALSE], match_start)
        span == [ok |-> FALSE, start |-> match_start, end |-> match_end, wrapped |-> FALSE]
    IN  IF ~(r.ok /\ r.start = match_start /\ r.end = match_end)
        THEN Returned(w, "replace", span)
        ELSE LET del == [kind |-> "del", pos |-> match_start,
                         text |-> SubSeq(w.buf.content, match_start + 1, match_end)]
                 ins == [kind |-> "ins", pos |-> match_start, text |-> replace_text]
                 g == IF replace_text = <<>> THEN <<del>> ELSE <<del, ins>>
                 w1 == gtk_user_action(w, g)
             IN  Returned(w1, "replace", [span EXCEPT !.ok = TRUE])

\* The number of bytes a character takes in UTF-8: "U+00E9" stands for a character
\* outside ASCII, which takes two.
Utf8Len(c) == IF c = "U+00E9" THEN 2 ELSE 1

RECURSIVE Utf8Bytes(_)
Utf8Bytes(t) == IF t = <<>> THEN 0 ELSE Utf8Len(Head(t)) + Utf8Bytes(Tail(t))

\* The text that GtkSource inserts when it is given the text t with the length
\* len(t), the number of characters of t, where it wants the number of bytes:
\* gtk_text_buffer_insert takes the first len(t) bytes of t, and inserts nothing
\* (g_return_if_fail) when these bytes end inside a character.
TextOfLength(t, length) ==
    LET ks == {k \in 0..Len(t) : Utf8Bytes(SubSeq(t, 1, k)) = length}
    IN  IF ks = {} THEN <<>> ELSE SubSeq(t, 1, CHOOSE k \in ks : TRUE)

\* SearchContext.replace
SearchContext_replace(w, match_start, match_end, replace_text) ==
    IF ~w.gs \/ ~w.sc.hasContext
    THEN Returned(w, "replace", [ok |-> FALSE, start |-> match_start,
                                 end |-> match_end, wrapped |-> FALSE])
    ELSE gs_replace(w, match_start, match_end,
                    TextOfLength(replace_text, Len(replace_text)))

SetMax(S) == CHOOSE x \in S : \A y \in S : x >= y

\* GtkSource.SearchContext.backward: the last occurrence that ends at or before
\* start; with wrap_around, none there, the last one of the buffer.
gs_backward(s, c, start) ==
    LET all == OccurrencesFrom(s, c, 0)
        before == {j \in all : j + Len(c.text) <= start}
    IN  IF before # {}
        THEN [ok |-> TRUE, start |-> SetMax(before),
              end |-> SetMax(before) + Len(c.text), wrapped |-> FALSE]
        ELSE IF c.wrapAround /\ all # {}
        THEN [ok |-> TRUE, start |-> SetMax(all),
              end |-> SetMax(all) + Len(c.text), wrapped |-> TRUE]
        ELSE [ok |-> FALSE, start |-> -1, end |-> -1, wrapped |-> FALSE]

\* SearchContext.find_previous; start_iter = -1 stands for None.
SearchContext_find_previous(w, start_iter) ==
    IF ~w.gs \/ ~w.sc.hasContext
    THEN Returned(w, "find_previous",
                  [ok |-> FALSE, start |-> -1, end |-> -1, wrapped |-> FALSE])
    ELSE LET from == IF start_iter # -1 THEN start_iter ELSE w.buf.insert
         IN  Returned(w, "find_previous", gs_backward(w.buf.content, w.sc, from))

\* The records by which one occurrence at offset i is replaced by the text t.
ReplaceRecs(s, c, i, t) ==
    LET del == [kind |-> "del", pos |-> i, text |-> SubSeq(s, i + 1, i + Len(c.text))]
        ins == [kind |-> "ins", pos |-> i, text |-> t]
    IN  IF t = <<>> THEN <<del>> ELSE <<del, ins>>

\* The loop of GtkSource.SearchContext.replace_all: from the start of the buffer,
\* the next occurrence at or after iter in the text as it is by now is replaced and
\* iter moves behind the replacement, until no occurrence is left.  g collects the
\* replacements made, each with its records.
RECURSIVE replace_all_loop(_, _, _, _, _)
replace_all_loop(s, c, iter, t, g) ==
    LET r == gs_forward(s, [c EXCEPT !.wrapAround = FALSE], iter)
    IN  IF ~r.ok THEN g
        ELSE LET recs == ReplaceRecs(s, c, r.start, t)
             IN  replace_all_loop(ApplyGroup(s, recs), c, r.start + Len(t), t,
                                  g \o <<recs>>)

RECURSIVE Flatten(_)
Flatten(gs) == IF gs = <<>> THEN <<>> ELSE Head(gs) \o Flatten(Tail(gs))

\* A faulty variant of GtkSource.SearchContext.replace_all, for C21: the scan starts
\* at the cursor, not at the start of the buffer.
gs_replace_all_from_cursor(w, replace_text) ==
    LET g == replace_all_loop(w.buf.content, w.sc, w.buf.insert, replace_text, <<>>)
        w1 == IF g = <<>> THEN w ELSE gtk_user_action(w, Flatten(g))
    IN  [w1 EXCEPT !.out.call = "replace_all", !.out.count = Len(g)]

\* GtkSource.SearchContext.replace_all: all the replacements are one user action,
\* and their number is given back.
gs_replace_all(w, replace_text) ==
    LET g == replace_all_loop(w.buf.content, w.sc, 0, replace_text, <<>>)
        w1 == IF g = <<>> THEN w ELSE gtk_user_action(w, Flatten(g))
    IN  [w1 EXCEPT !.out.call = "replace_all", !.out.count = Len(g)]

\* SearchContext.replace_all: what the GtkSource call gives back is dropped, the
\* method returns None.
SearchContext_replace_all(w, replace_text) ==
    IF ~w.gs \/ ~w.sc.hasContext
    THEN [w EXCEPT !.out.call = "replace_all"]
    ELSE [gs_replace_all(w, TextOfLength(replace_text, Len(replace_text)))
              EXCEPT !.out.count = -1]

(***************************************************************************)
(* ui/dialogs.py and the toast                                             *)
(***************************************************************************)
\* show_error_dialog; message is how the text begins ("Failed to open file", ...).
show_error_dialog(w, message) == [w EXCEPT !.out.errorDialog = message]

show_toast(w, text) == [w EXCEPT !.out.toast = text]

\* show_unsaved_changes_dialog: the dialog waits for its response; intent names the
\* callback it was given (that of new, of open or of close).
show_unsaved_changes_dialog(w, intent) ==
    [w EXCEPT !.win.dialogs = Append(@, intent)]

(***************************************************************************)
(* ui/window.py: MfaTextWindow                                             *)
(***************************************************************************)
NoWindow ==
    [hasBuffer |-> FALSE, view |-> "none", saveSensitive |-> FALSE,
     titleMod |-> FALSE, titleName |-> "MfaText",
     dialogs |-> <<>>, openDlg |-> 0, saveDlg |-> 0, timers |-> <<>>,
     closed |-> FALSE, searchEntry |-> <<>>, replaceEntry |-> <<>>,
     leaked |-> FALSE]

\* The lines open_file, _create_new_file and __init__ share: the new EditorBuffer
\* (the world r holds it) becomes self._editor_buffer, the view shows its buffer, a
\* new SearchContext is made for it and the window connects to its signals.  The
\* buffer held before is dropped as it is, cleanup() not called: the file monitor it
\* has stays active (leaked: a buffer the window dropped has an active monitor).
adopt_buffer(w, r) ==
    [r EXCEPT !.win.hasBuffer = TRUE,
              !.win.leaked = @ \/ (w.win.hasBuffer /\ w.buf.monitor # NoPath),
              !.win.view = "cur",
              !.sc = NewSearchContext(w.gs),
              !.buf.connected = TRUE]

\* open_file
open_file(w, p, io) ==
    LET r == EditorBuffer_init(w, p, io)
    IN  IF Raised(r)
        THEN show_error_dialog([w EXCEPT !.disk = r.disk, !.clock = r.clock,
                                         !.out = Caught(r).out],
                               "Failed to open file")
        ELSE show_toast(update_title(adopt_buffer(w, r)), "File loaded")

\* _create_new_file
create_new_file(w) ==
    update_title(adopt_buffer(w, EditorBuffer_init(w, NoPath, "ok")))

\* _show_open_dialog
show_open_dialog(w) == [w EXCEPT !.win.openDlg = @ + 1]

\* _on_save_as
on_save_as(w) == [w EXCEPT !.win.saveDlg = @ + 1]

\* _on_save_clicked
on_save_clicked(w, io) ==
    IF ~w.win.hasBuffer THEN w
    ELSE IF w.buf.filePath = NoPath THEN on_save_as(w)
    ELSE LET r == EditorBuffer_save_file(w, NoPath, io)
         IN  IF Raised(r) THEN show_error_dialog(Caught(r), "Failed to save file")
             ELSE update_title(show_toast(r, "File saved"))

\* What became of the save a dialog's 'save' response asked for, as the timer it
\* starts is set: done ("ok"), refused with an error dialog ("failed"), or waiting
\* for the save-as dialog ("pending").  History only: no handler reads it.
SaveOutcome(r) ==
    IF r.out.toast = "File saved" THEN "ok"
    ELSE IF r.out.errorDialog # "none" THEN "failed"
    ELSE "pending"

\* GLib.timeout_add(500, follow_up), after _on_save_clicked returned r.
timeout_add(r, intent) ==
    [r EXCEPT !.win.timers = Append(@, [intent |-> intent, saved |-> SaveOutcome(r)])]

\* _on_save_dialog_response; p = NoPath when the dialog was dismissed (save_finish
\* raises, the except clause logs it).
on_save_dialog_response(w, p, io) ==
    LET w0 == [w EXCEPT !.win.saveDlg = @ - 1]
    IN  IF p = NoPath \/ ~w.win.hasBuffer THEN w0
        ELSE LET r == EditorBuffer_save_file(w0, p, io)
             IN  IF Raised(r) THEN Caught(r)
                 ELSE LET done == [i \in DOMAIN r.win.timers |->
                                      IF r.win.timers[i].saved = "pending"
                                      THEN [r.win.timers[i] EXCEPT !.saved = "ok"]
                                      ELSE r.win.timers[i]]
                      IN  update_title(show_toast([r EXCEPT !.win.timers = done],
                                                  "File saved"))

\* _on_file_dialog_response; p = NoPath when the dialog was dismissed.
on_file_dialog_response(w, p, io) ==
    LET w0 == [w EXCEPT !.win.openDlg = @ - 1]
    IN  IF p = NoPath THEN w0 ELSE open_file(w0, p, io)

\* _do_close: destroy() takes the window's pending dialogs with it.
do_close(w) ==
    LET w1 == IF w.win.hasBuffer THEN cleanup(w) ELSE w
    IN  [w1 EXCEPT !.win.closed = TRUE, !.win.dialogs = <<>>,
                   !.win.openDlg = 0, !.win.saveDlg = 0]

IsModified(w) == w.win.hasBuffer /\ w.buf.modified

\* _on_new_file
on_new_file(w) ==
    IF IsModified(w) THEN show_unsaved_changes_dialog(w, "new")
    ELSE create_new_file(w)

\* _on_open_file
on_open_file(w) ==
    IF IsModified(w) THEN show_unsaved_changes_dialog(w, "open")
    ELSE show_open_dialog(w)

\* _on_close_request / _check_and_close
check_and_close(w) ==
    IF IsModified(w) THEN show_unsaved_changes_dialog(w, "close")
    ELSE do_close(w)

\* The follow-up of an intent: what the callback runs on 'discard', and what its
\* timer runs 500 ms after 'save'.
follow_up(w, intent) ==
    IF intent = "new" THEN create_new_file(w)
    ELSE IF intent = "open" THEN show_open_dialog(w)
    ELSE do_close(w)

\* A faulty variant of the callback, for C2: 'cancel' goes on like 'discard'.
callback_cancel_proceeds(w, intent, response, io) ==
    IF response = "save" THEN timeout_add(on_save_clicked(w, io), intent)
    ELSE follow_up(w, intent)

\* The callback given to show_unsaved_changes_dialog by _on_new_file, _on_open_file
\* and _check_and_close, run with the dialog's response.
callback(w, intent, response, io) ==
    IF response = "save" THEN timeout_add(on_save_clicked(w, io), intent)
    ELSE IF response = "discard" THEN follow_up(w, intent)
    ELSE w

\* The top dialog is answered: it closes and its callback runs.
on_response(w, response, io) ==
    LET n == Len(w.win.dialogs)
    IN  callback([w EXCEPT !.win.dialogs = SubSeq(@, 1, n - 1),
                           !.out.answered = response],
                 w.win.dialogs[n], response, io)

\* The oldest timer fires: its follow-up runs, whatever became of the save.
on_timeout(w) ==
    follow_up([w EXCEPT !.win.timers = Tail(@)], Head(w.win.timers).intent)

\* MfaTextWindow.__init__, with a file to open (p) or without (NoPath).
MfaTextWindow_init(w, p, io) ==
    IF p # NoPath THEN open_file(w, p, io)
    ELSE update_title(adopt_buffer(w, EditorBuffer_init(w, NoPath, "ok")))


\* _on_undo_clicked / _on_redo_clicked (and Ctrl+Z, Ctrl+Y in _on_key_pressed)
on_undo_clicked(w) == IF w.win.hasBuffer THEN EditorBuffer_undo(w) ELSE w
on_redo_clicked(w) == IF w.win.hasBuffer THEN EditorBuffer_redo(w) ELSE w

\* A faulty variant of _on_search_changed, for C23: the search is made
\* case-sensitive.
on_search_changed_case_sensitive(w) ==
    IF w.sc.exists THEN set_search_text(w, w.win.searchEntry, TRUE, TRUE) ELSE w

\* _on_search_changed and _update_search_settings: the text of the search entry
\* goes to the search context, with the defaults of set_search_text.
on_search_changed(w) ==
    IF w.sc.exists THEN set_search_text(w, w.win.searchEntry, FALSE, TRUE) ELSE w

update_search_settings(w) == on_search_changed(w)

\* A faulty variant of _on_search_next_clicked, for C29: the match stays selected,
\* the insert mark is not moved to its end.
on_search_next_clicked_keeps_selection(w) ==
    IF ~w.sc.exists \/ ~w.win.hasBuffer THEN w
    ELSE LET w1 == update_search_settings(w)
         IN  IF w.win.searchEntry = <<>> THEN w1
             ELSE LET r == SearchContext_find_next(w1, -1)
                  IN  IF ~r.out.ok THEN r
                      ELSE LET r1 == select_range(r, r.out.start, r.out.end)
                           IN  IF r.out.wrapped THEN show_toast(r1, "Search wrapped")
                               ELSE r1

\* _on_search_next_clicked: the match is selected, then the insert mark is moved to
\* its end, which leaves the cursor there and nothing selected.
on_search_next_clicked(w) ==
    IF ~w.sc.exists \/ ~w.win.hasBuffer THEN w
    ELSE LET w1 == update_search_settings(w)
         IN  IF w.win.searchEntry = <<>> THEN w1
             ELSE LET r == SearchContext_find_next(w1, -1)
                  IN  IF ~r.out.ok THEN r
                      ELSE LET r1 == select_range(r, r.out.start, r.out.end)
                               r2 == [r1 EXCEPT !.buf.insert = r.out.end]
                           IN  IF r.out.wrapped THEN show_toast(r2, "Search wrapped")
                               ELSE r2

\* _on_search_prev_clicked
on_search_prev_clicked(w) ==
    IF ~w.sc.exists \/ ~w.win.hasBuffer THEN w
    ELSE LET r == SearchContext_find_previous(w, -1)
         IN  IF ~r.out.ok THEN r
             ELSE LET r1 == select_range(r, r.out.start, r.out.end)
                  IN  IF r.out.wrapped THEN show_toast(r1, "Search wrapped") ELSE r1

\* _on_search_activate
on_search_activate(w) == on_search_next_clicked(on_search_changed(w))

\* _on_replace_clicked: the search starts at the start of the selection, or at the
\* cursor when nothing is selected; what it finds is replaced, the replacement is
\* selected, and _on_search_next_clicked moves on.
on_replace_clicked(w) ==
    IF ~w.sc.exists \/ ~w.win.hasBuffer THEN w
    ELSE LET w1 == update_search_settings(w)
             sel_start == IF w.buf.insert < w.buf.bound THEN w.buf.insert ELSE w.buf.bound
             search_start == IF w.buf.insert # w.buf.bound THEN sel_start ELSE w.buf.insert
         IN  IF w.win.searchEntry = <<>> THEN w1
             ELSE LET f == SearchContext_find_next(w1, search_start)
                  IN  IF ~f.out.ok THEN f
                      ELSE LET r == SearchContext_replace(f, f.out.start, f.out.end,
                                                          w.win.replaceEntry)
                           IN  IF ~r.out.ok THEN r
                               ELSE on_search_next_clicked(
                                        select_range(r, f.out.start,
                                                     f.out.start + Len(w.win.replaceEntry)))

\* A faulty variant of _on_replace_all_clicked, for C30: an empty replace entry is
\* taken as a replacement like any other, and the occurrences are deleted.
on_replace_all_clicked_deletes(w) ==
    IF ~w.sc.exists THEN w
    ELSE LET w1 == update_search_settings([w EXCEPT !.out.call = "_on_replace_all_clicked"])
         IN  IF w.win.searchEntry = <<>> THEN w1
             ELSE show_toast(SearchContext_replace_all(w1, w.win.replaceEntry),
                             "Replace all completed")

\* _on_replace_all_clicked
on_replace_all_clicked(w) ==
    IF ~w.sc.exists THEN w
    ELSE LET w1 == update_search_settings([w EXCEPT !.out.call = "_on_replace_all_clicked"])
         IN  IF w.win.searchEntry = <<>> THEN w1
             ELSE IF w.win.replaceEntry = <<>> THEN w1
             ELSE show_toast(SearchContext_replace_all(w1, w.win.replaceEntry),
                             "Replace all completed")

(***************************************************************************)
(* The state machine.                                                      *)
(***************************************************************************)
World ==
    [gs |-> hasGtkSource, buf |-> buf, sc |-> sc, win |-> win,
     disk |-> disk, clock |-> clock, out |-> NoOut]

\* The files at start: p1 holds "a", p2 does not exist.
Disk0 ==
    [p \in Paths |-> IF p = "p1"
                     THEN [exists |-> TRUE, content |-> <<"a">>, mtime |-> 1]
                     ELSE NoFile]

World0(gs) ==
    [gs |-> gs, buf |-> NewEditorBuffer(NoPath), sc |-> NoSearchContext,
     win |-> NoWindow, disk |-> Disk0, clock |-> 1, out |-> NoOut]

InBounds(r) ==
    /\ Len(r.buf.content) <= MaxLen
    /\ Len(r.buf.undo) <= MaxUndo
    /\ Len(r.win.dialogs) + r.win.openDlg + r.win.saveDlg + Len(r.win.timers) <= MaxPending

\* The world r is the next state.
Apply(r) ==
    /\ InBounds(r)
    /\ hasGtkSource' = hasGtkSource
    /\ buf' = r.buf
    /\ sc' = r.sc
    /\ win' = r.win
    /\ disk' = r.disk
    /\ clock' = r.clock
    /\ out' = r.out

\* The builds the program runs in.  core/search.py imports GtkSource outside any
\* try (line 9) and the window imports core/search.py, so the program starts only
\* where GtkSource is there: the plain Gtk.TextBuffer branches are never taken.
Variants == {TRUE}

\* The window is constructed, for a file given on the command line or for none.
Init ==
    \E gs \in Variants, p \in Paths \cup {NoPath}, io \in IoLoad :
        LET r == MfaTextWindow_init(World0(gs), p, io)
        IN  /\ hasGtkSource = gs
            /\ buf = r.buf
            /\ sc = r.sc
            /\ win = r.win
            /\ disk = r.disk
            /\ clock = r.clock
            /\ out = r.out

\* No dialog is in the way of the user and the window is there.
UserFree ==
    /\ ~win.closed
    /\ win.dialogs = <<>>
    /\ win.openDlg = 0
    /\ win.saveDlg = 0

\* The user puts the cursor at the end of the text and types "a".
TypeChar ==
    \E join \in BOOLEAN :
        /\ UserFree /\ win.hasBuffer
        /\ Apply(gtk_edit(place_cursor(World, Len(buf.content)),
                          [kind |-> "ins", pos |-> Len(buf.content), text |-> <<"a">>],
                          join))

Undo == UserFree /\ Apply(on_undo_clicked(World))

Redo == UserFree /\ Apply(on_redo_clicked(World))

NewFile == UserFree /\ Apply(on_new_file(World))

OpenFile == UserFree /\ Apply(on_open_file(World))

Save == \E io \in IoSave : UserFree /\ Apply(on_save_clicked(World, io))

SaveAs == UserFree /\ Apply(on_save_as(World))

\* The window manager asks the window to close, dialogs in the way or not.
CloseRequest == ~win.closed /\ Apply(check_and_close(World))

\* The user answers the unsaved-changes dialog.
Respond ==
    \E response \in {"cancel", "discard", "save"}, io \in IoSave :
        /\ win.dialogs # <<>>
        /\ Apply(on_response(World, response, io))

\* The user picks a file in the open dialog, or dismisses it (NoPath).
OpenDialogResponse ==
    \E p \in Paths \cup {NoPath}, io \in IoLoad :
        /\ win.openDlg > 0
        /\ Apply(on_file_dialog_response(World, p, io))

\* The user picks a file in the save dialog, or dismisses it (NoPath).
SaveDialogResponse ==
    \E p \in Paths \cup {NoPath}, io \in IoSave :
        /\ win.saveDlg > 0
        /\ Apply(on_save_dialog_response(World, p, io))

\* 500 ms have passed since a timer was set.
Timeout ==
    /\ win.timers # <<>>
    /\ Apply(on_timeout(World))

Next ==
    \/ TypeChar
    \/ Undo
    \/ Redo
    \/ NewFile
    \/ OpenFile
    \/ Save
    \/ SaveAs
    \/ CloseRequest
    \/ Respond
    \/ OpenDialogResponse
    \/ SaveDialogResponse
    \/ Timeout

Spec == Init /\ [][Next]_vars

(***************************************************************************)
(* The EditorBuffer on its own: a caller constructs it and calls its       *)
(* methods, in any order.                                                  *)
(***************************************************************************)
InitBuffer ==
    \E gs \in Variants, p \in Paths \cup {NoPath}, io \in IoLoad :
        LET r == EditorBuffer_init(World0(gs), p, io)
        IN  /\ ~Raised(r)
            /\ hasGtkSource = gs
            /\ buf = r.buf
            /\ sc = r.sc
            /\ win = r.win
            /\ disk = r.disk
            /\ clock = r.clock
            /\ out = r.out

ApplyBuffer(r) ==
    /\ Len(r.buf.content) <= MaxText
    /\ Len(r.buf.undo) <= MaxHistory
    /\ hasGtkSource' = hasGtkSource
    /\ buf' = r.buf
    /\ sc' = r.sc
    /\ win' = r.win
    /\ disk' = r.disk
    /\ clock' = r.clock
    /\ out' = r.out

\* The edits of one character a caller or the view can make in the world w.
Insertion(i, c) == [kind |-> "ins", pos |-> i, text |-> <<c>>]
Deletion(w, i) == [kind |-> DeleteKind(w, i), pos |-> i, text |-> <<w.buf.content[i + 1]>>]

\* The worlds that one edit of one character can make of the world w.
AfterEdit(w) ==
    {gtk_edit(w, Insertion(i, c), join) :
         i \in 0..Len(w.buf.content), c \in Chars, join \in BOOLEAN}
    \cup {gtk_edit(w, Deletion(w, i), join) :
              i \in 0..(Len(w.buf.content) - 1), join \in BOOLEAN}

\* buffer.insert(iter, "a")
InsertText ==
    \E i \in 0..Len(buf.content), join \in BOOLEAN :
        ApplyBuffer(gtk_edit(World, Insertion(i, "a"), join))

\* buffer.delete(iter, iter + 1)
DeleteText ==
    \E i \in 0..(Len(buf.content) - 1), join \in BOOLEAN :
        ApplyBuffer(gtk_edit(World, Deletion(World, i), join))

BufferUndo == ApplyBuffer(EditorBuffer_undo(World))

BufferRedo == ApplyBuffer(EditorBuffer_redo(World))

LoadFile == \E p \in Paths, io \in IoLoad : ApplyBuffer(EditorBuffer_load_file(World, p, io))

SaveFile ==
    \E p \in Paths \cup {NoPath}, io \in IoSave :
        ApplyBuffer(EditorBuffer_save_file(World, p, io))

NextBuffer ==
    \/ InsertText
    \/ DeleteText
    \/ BufferUndo
    \/ BufferRedo
    \/ LoadFile
    \/ SaveFile

SpecBuffer == InitBuffer /\ [][NextBuffer]_vars

(***************************************************************************)
(* The SearchContext on its own, over the buffer of an EditorBuffer that   *)
(* holds some text: a caller sets the search, finds, replaces and edits.   *)
(***************************************************************************)
SearchChars == {"a", "A", "b"}
SearchTexts == {<<>>, <<"a">>, <<"a", "b">>}
ReplaceTexts == {<<>>, <<"b">>}

Texts == UNION {[1..n -> SearchChars] : n \in 0..MaxSearchLen}

InitSearch ==
    \E gs \in Variants, text \in Texts :
        LET r == gtk_set_modified(gtk_set_text(World0(gs), text), FALSE)
        IN  /\ hasGtkSource = gs
            /\ buf = r.buf
            /\ sc = NewSearchContext(gs)
            /\ win = r.win
            /\ disk = r.disk
            /\ clock = r.clock
            /\ out = r.out

ApplySearch(r) ==
    /\ Len(r.buf.content) <= MaxSearchLen
    /\ Len(r.buf.undo) <= MaxSearchEdits
    /\ hasGtkSource' = hasGtkSource
    /\ buf' = r.buf
    /\ sc' = r.sc
    /\ win' = r.win
    /\ disk' = r.disk
    /\ clock' = r.clock
    /\ out' = r.out

SetSearchText ==
    \E text \in SearchTexts, case_sensitive \in BOOLEAN, wrap_around \in BOOLEAN :
        ApplySearch(set_search_text(World, text, case_sensitive, wrap_around))

FindNext ==
    \E start_iter \in -1..Len(buf.content) :
        ApplySearch(SearchContext_find_next(World, start_iter))

Replace ==
    \E match_start \in 0..Len(buf.content), match_end \in 0..Len(buf.content),
       replace_text \in ReplaceTexts :
        /\ match_start <= match_end
        /\ ApplySearch(SearchContext_replace(World, match_start, match_end, replace_text))

\* The text is edited between two calls of the search.
SearchEdit ==
    \E c \in SearchChars, i \in 0..Len(buf.content), join \in BOOLEAN :
        ApplySearch(Called(gtk_edit(World, [kind |-> "ins", pos |-> i, text |-> <<c>>],
                                    join),
                           "insert", NoPath))

NextSearch ==
    \/ SetSearchText
    \/ FindNext
    \/ Replace
    \/ SearchEdit

SpecSearch == InitSearch /\ [][NextSearch]_vars

(***************************************************************************)
(* The search toolbar of the window: a file that holds some text is shown, *)
(* and the user fills the two entries, clicks the four buttons and moves   *)
(* the cursor.                                                             *)
(***************************************************************************)
FindTexts == UNION {[1..n -> SearchChars] : n \in 0..MaxFindLen}

InitFind ==
    \E gs \in Variants, text \in FindTexts :
        LET r == MfaTextWindow_init([World0(gs) EXCEPT !.disk["p1"].content = text],
                                    "p1", "ok")
        IN  /\ hasGtkSource = gs
            /\ buf = r.buf
            /\ sc = r.sc
            /\ win = r.win
            /\ disk = r.disk
            /\ clock = r.clock
            /\ out = r.out

ApplyFind(r) ==
    /\ Len(r.buf.content) <= MaxFindLen
    /\ Len(r.buf.undo) <= MaxFindEdits
    /\ hasGtkSource' = hasGtkSource
    /\ buf' = r.buf
    /\ sc' = r.sc
    /\ win' = r.win
    /\ disk' = r.disk
    /\ clock' = r.clock
    /\ out' = r.out

\* The user changes the text of the search entry: "changed" runs _on_search_changed.
SearchEntryChanged ==
    \E text \in SearchTexts :
        /\ text # win.searchEntry
        /\ ApplyFind(on_search_changed([World EXCEPT !.win.searchEntry = text]))

\* The user changes the text of the replace entry.
ReplaceEntryChanged ==
    \E text \in ReplaceTexts :
        /\ text # win.replaceEntry
        /\ ApplyFind([World EXCEPT !.win.replaceEntry = text])

SearchActivate == ApplyFind(on_search_activate(World))

SearchNext == ApplyFind(on_search_next_clicked(World))

SearchPrev == ApplyFind(on_search_prev_clicked(World))

ReplaceClicked == ApplyFind(on_replace_clicked(World))

ReplaceAllClicked == ApplyFind(on_replace_all_clicked(World))

\* The user clicks into the text.
PlaceCursor ==
    \E i \in 0..Len(buf.content) :
        /\ ~(buf.insert = i /\ buf.bound = i)
        /\ ApplyFind(place_cursor(World, i))

\* The user selects text, in either direction.
SelectText ==
    \E i \in 0..Len(buf.content), j \in 0..Len(buf.content) :
        /\ i # j
        /\ ApplyFind(select_range(World, i, j))

NextFind ==
    \/ SearchEntryChanged
    \/ ReplaceEntryChanged
    \/ SearchActivate
    \/ SearchNext
    \/ SearchPrev
    \/ ReplaceClicked
    \/ ReplaceAllClicked
    \/ PlaceCursor
    \/ SelectText

SpecFind == InitFind /\ [][NextFind]_vars

(***************************************************************************)
(* The EditorBuffer and the files it works on: a caller constructs it,     *)
(* edits, loads and saves; other programs write and remove files; the main *)
(* loop hands the signals of the file monitor to _on_file_changed and runs *)
(* the idle callbacks.                                                     *)
(***************************************************************************)
InitMonitor ==
    \E gs \in Variants, p \in Paths \cup {NoPath} :
        LET r == EditorBuffer_init(World0(gs), p, "ok")
        IN  /\ hasGtkSource = gs
            /\ buf = r.buf
            /\ sc = r.sc
            /\ win = r.win
            /\ disk = r.disk
            /\ clock = r.clock
            /\ out = r.out

ApplyMonitor(r) ==
    /\ Len(r.buf.content) <= MaxLen
    /\ Len(r.buf.events) <= MaxEvents
    /\ r.clock <= MaxClock
    /\ hasGtkSource' = hasGtkSource
    /\ buf' = r.buf
    /\ sc' = r.sc
    /\ win' = r.win
    /\ disk' = r.disk
    /\ clock' = r.clock
    /\ out' = r.out

\* What the file monitor makes of a change of the file p: when it watches p, the
\* events wait in the main loop.
FsNotify(w, p, events) ==
    IF w.buf.monitor = p THEN [w EXCEPT !.buf.events = @ \o events] ELSE w

\* Time passes, or not, before something is written.
Later(w) == {w, [w EXCEPT !.clock = @ + 1]}

MonitorInsert ==
    ApplyMonitor(gtk_edit(World, Insertion(Len(buf.content), "a"), FALSE))

MonitorLoad == \E p \in Paths : ApplyMonitor(EditorBuffer_load_file(World, p, "ok"))

\* save_file(path) or save_file(); the write of a save that worked is seen by the
\* monitor like any other write.
MonitorSave ==
    \E p \in Paths \cup {NoPath}, io \in IoSave, w \in Later(World) :
        LET r == EditorBuffer_save_file(w, p, io)
        IN  ApplyMonitor(IF Raised(r) THEN r
                         ELSE FsNotify(r, r.buf.filePath, <<"CHANGED", "CHANGES_DONE_HINT">>))

\* Another program writes the file p.
ExternalWrite ==
    \E p \in Paths, w \in Later(World) :
        ApplyMonitor(FsNotify([w EXCEPT !.disk[p] = [exists |-> TRUE, content |-> <<"b">>,
                                                     mtime |-> w.clock]],
                              p, <<"CHANGED", "CHANGES_DONE_HINT">>))

\* Another program removes the file p.
ExternalRemove ==
    \E p \in Paths :
        /\ disk[p].exists
        /\ ApplyMonitor(FsNotify(Vanish(World, p), p, <<"DELETED">>))

\* The main loop emits the "changed" signal of the monitor.
DeliverEvent ==
    /\ buf.events # <<>>
    /\ ApplyMonitor(on_file_changed([World EXCEPT !.buf.events = Tail(@)], Head(buf.events)))

\* The main loop is idle and runs a scheduled callback.
RunIdle ==
    /\ buf.idle > 0
    /\ ApplyMonitor(on_file_changed_externally(World))

NextMonitor ==
    \/ MonitorInsert
    \/ MonitorLoad
    \/ MonitorSave
    \/ ExternalWrite
    \/ ExternalRemove
    \/ DeliverEvent
    \/ RunIdle

SpecMonitor == InitMonitor /\ [][NextMonitor]_vars

(***************************************************************************)
(* Properties.  A primed field of out tells what the step did, an unprimed *)
(* one what the step before it did.                                        *)
(***************************************************************************)

\* C1: the follow-up that a 'save' answer to the unsaved-changes dialog puts on the
\* 500 ms timer (new buffer, open dialog or close) runs only after that save has
\* succeeded: not when it failed, and not while its save-as dialog is still open.
\* Checked under Spec; it does not hold.
C1_FollowUpOnlyAfterSave ==
    [][Timeout => Head(win.timers).saved = "ok"]_vars

\* C2: the window closes only on a close request that finds the buffer unmodified, on
\* 'discard' given to the dialog of a close request, or on the timer that 'save' given
\* to that dialog has set (timers are set by 'save' answers only); and 'cancel' leaves
\* the window open and the buffer (content, filePath, modified) as it was.
\* Checked under Spec.
C2_CloseOnlyWhenAllowed ==
    [][/\ (~win.closed /\ win'.closed) =>
              \/ ~IsModified(World)
              \/ /\ out'.answered = "discard"
                 /\ win.dialogs # <<>>
                 /\ win.dialogs[Len(win.dialogs)] = "close"
              \/ /\ win.timers # <<>>
                 /\ Head(win.timers).intent = "close"
       /\ Len(win'.timers) > Len(win.timers) => out'.answered = "save"
       /\ out'.answered = "cancel" =>
              /\ win'.closed = win.closed
              /\ buf' = buf
              /\ win'.hasBuffer = win.hasBuffer
              /\ win'.timers = win.timers]_vars

\* C2, witness: 'cancel' was given and the window is open on its modified buffer.
C2_CancelKeepsWindow ==
    /\ out.answered = "cancel"
    /\ ~win.closed
    /\ win.hasBuffer
    /\ buf.modified

\* The span start..end holds the search text of context c in s.
IsOccurrence(s, c, start, end) ==
    /\ OccursAt(s, c, start)
    /\ end = start + Len(c.text)

C4_FailedSaveShowsError ==
    [][out'.caught = "IOError" =>
          (out'.errorDialog = "Failed to save file" /\ buf' = buf)]_vars

\* C5: a load that fails, at whatever step, leaves the buffer (content, filePath,
\* modified, mtime) and the search context as they were.
\* Checked under SpecBuffer; it does not hold.
C5_FailedLoadKeepsState ==
    [][(out'.call = "load_file" /\ out'.raised # "none") =>
          (buf' = buf /\ sc' = sc)]_vars

\* C6: opening a path never ends as a successful load ("File loaded") of a document
\* whose file does not exist.  Checked under Spec; it does not hold.
C6_MissingPathIsReported ==
    out.toast = "File loaded" => (buf.filePath # NoPath /\ disk[buf.filePath].exists)

C8_LoadResetsHistory ==
    (out.call = "load_file" /\ out.raised = "none") =>
        /\ ~can_undo(World)
        /\ ~can_redo(World)
        /\ ~buf.modified
        /\ EditorBuffer_undo(World).buf = buf

\* C8, witness: a file that an edited buffer wrote has been loaded.
C8_LoadedAfterEdits ==
    /\ out.call = "load_file"
    /\ out.raised = "none"
    /\ out.path = "p2"
    /\ buf.content # <<>>

\* C9: save_file with no path given, on a buffer that has none, raises ValueError,
\* writes nothing and leaves the buffer (modified, filePath, mtime) as it was.
\* Checked under SpecBuffer.
C9_SaveWithoutPath ==
    [][(out'.call = "save_file" /\ out'.path = NoPath /\ buf.filePath = NoPath) =>
          (out'.raised = "ValueError" /\ buf' = buf /\ disk' = disk)]_vars

\* C9, witness: the save of a modified buffer without a path has been refused.
C9_RefusedWithoutPath ==
    /\ out.call = "save_file"
    /\ out.raised = "ValueError"
    /\ buf.modified
    /\ buf.filePath = NoPath

\* C10: the title's modified marker and the Save button's sensitivity equal the
\* modified flag of the buffer shown, and the title's name is that buffer's file
\* (or Untitled).  Checked under Spec; it does not hold.
C10_DisplayFollowsBuffer ==
    (win.hasBuffer /\ ~win.closed) =>
        /\ win.titleMod = buf.modified
        /\ win.saveSensitive = buf.modified
        /\ win.titleName = (IF buf.filePath # NoPath THEN buf.filePath ELSE Untitled)

\* C11 as stated: n edits followed by n undo() calls leave the content that was
\* there before the edits (n = 1 and n = 2, from every state of the buffer).
C11_UndoRestoresContent ==
    \A w1 \in AfterEdit(World) :
        /\ EditorBuffer_undo(w1).buf.content = buf.content
        /\ \A w2 \in AfterEdit(w1) :
               EditorBuffer_undo(EditorBuffer_undo(w2)).buf.content = buf.content

\* C11 as amended: n edits made from an empty undo log, followed by n undo() calls,
\* leave the content that was there before the edits (n = 1 and n = 2).
C11_UndoRestoresFromEmptyLog ==
    buf.undo = <<>> =>
        \A w1 \in AfterEdit(World) :
            /\ EditorBuffer_undo(w1).buf.content = buf.content
            /\ \A w2 \in AfterEdit(w1) :
                   EditorBuffer_undo(EditorBuffer_undo(w2)).buf.content = buf.content

\* An undo has emptied the undo log of a buffer that holds text: edits and undos
\* start from an empty log here.
C11_UndoneToEmptyLog ==
    /\ out.call = "undo"
    /\ buf.undo = <<>>
    /\ buf.redo # <<>>
    /\ buf.content # <<>>

\* C12: redo() directly after an undo() that undid something gives back the content,
\* and the undo log, that were there before the undo.
C12_RedoRestoresContent ==
    can_undo(World) =>
        LET u == EditorBuffer_undo(World)
            r == EditorBuffer_redo(u)
        IN  /\ can_redo(u)
            /\ r.buf.content = buf.content
            /\ r.buf.undo = buf.undo

\* A redo has put an entry back on the undo log.
C12_Redone ==
    /\ out.call = "redo"
    /\ buf.undo # <<>>
    /\ buf.redo = <<>>

\* C13: an edit made after an undo() empties the redo log: can_redo() is false
\* after it and redo() leaves the content alone.
C13_EditClearsRedo ==
    buf.redo # <<>> =>
        \A w1 \in AfterEdit(World) :
            /\ ~can_redo(w1)
            /\ w1.buf.redo = <<>>
            /\ EditorBuffer_redo(w1).buf = w1.buf

\* An undo has left something to redo.
C13_AfterUndo ==
    /\ out.call = "undo"
    /\ buf.redo # <<>>

\* C14: undo() on an empty undo log and redo() on an empty redo log raise nothing
\* and leave the buffer (content, modified flag, both logs), the window and the
\* files as they are.
C14_EmptyLogNoOp ==
    /\ buf.undo = <<>> =>
           LET r == EditorBuffer_undo(World)
           IN  r.buf = buf /\ r.win = win /\ r.disk = disk /\ r.sc = sc
               /\ r.out.raised = "none" /\ r.out.caught = "none"
    /\ buf.redo = <<>> =>
           LET r == EditorBuffer_redo(World)
           IN  r.buf = buf /\ r.win = win /\ r.disk = disk /\ r.sc = sc
               /\ r.out.raised = "none" /\ r.out.caught = "none"

\* undo() was called with both logs empty.
C14_UndoOnEmptyLog ==
    /\ out.call = "undo"
    /\ buf.undo = <<>>
    /\ buf.redo = <<>>

C16_EmptyPatternDoesNothing ==
    win.searchEntry = <<>> =>
        /\ \A r \in {on_search_next_clicked(World), on_search_prev_clicked(World),
                      on_replace_clicked(World), on_replace_all_clicked(World)} :
               /\ r.buf = buf
               /\ ~Raised(r)
               /\ r.out.toast = "none" /\ r.out.errorDialog = "none"
        /\ sc.text = <<>>
        /\ \A i \in -1..Len(buf.content) :
               /\ ~SearchContext_find_next(World, i).out.ok
               /\ ~SearchContext_find_previous(World, i).out.ok
        /\ \A i \in 0..Len(buf.content), j \in 0..Len(buf.content), t \in ReplaceTexts :
               i <= j =>
                   LET r == SearchContext_replace(World, i, j, t)
                   IN  ~r.out.ok /\ r.buf = buf /\ ~Raised(r)
        /\ \A t \in ReplaceTexts :
               LET r == SearchContext_replace_all(World, t)
               IN  r.buf = buf /\ ~Raised(r)

\* Previous was clicked with an empty search entry, after a search for something,
\* in a buffer that holds text.
C16_PreviousWithEmptyPattern ==
    /\ win.searchEntry = <<>>
    /\ out.call = "find_previous"
    /\ buf.content # <<>>
    /\ buf.insert # buf.bound

\* What a left-to-right replace-all makes of the text s: at each offset, from the
\* left, an occurrence is replaced by t and the scan goes on behind it.
RECURSIVE ReferenceReplaceAll(_, _, _)
ReferenceReplaceAll(s, c, t) ==
    IF s = <<>> THEN <<>>
    ELSE IF OccursAt(s, c, 0)
    THEN t \o ReferenceReplaceAll(SubSeq(s, Len(c.text) + 1, Len(s)), c, t)
    ELSE <<Head(s)>> \o ReferenceReplaceAll(Tail(s), c, t)

\* The number of occurrences such a scan replaces.
RECURSIVE ReferenceCount(_, _)
ReferenceCount(s, c) ==
    IF s = <<>> THEN 0
    ELSE IF OccursAt(s, c, 0)
    THEN 1 + ReferenceCount(SubSeq(s, Len(c.text) + 1, Len(s)), c)
    ELSE ReferenceCount(Tail(s), c)

\* Replacement texts for replace_all: none, one that holds no pattern, one that
\* holds the pattern again, and two with a character outside ASCII.
AllReplaceTexts == {<<>>, <<"b">>, <<"a", "a">>, <<"U+00E9">>, <<"U+00E9", "b">>}

\* C17: replace_all with a non-empty pattern makes of the content what the reference
\* left-to-right replace-all makes of it, and returns the number of replacements.
C17_ReplaceAllReturnsCount ==
    sc.text # <<>> =>
        \A t \in AllReplaceTexts :
            LET r == SearchContext_replace_all(World, t)
            IN  /\ r.buf.content = ReferenceReplaceAll(buf.content, sc, t)
                /\ r.out.count = ReferenceCount(buf.content, sc)

\* C19: find_next with no start gives the first occurrence that starts at or after
\* the end of the selection (the cursor, when nothing is selected), when there is
\* one: an occurrence that begins right at the selection end is not skipped.
C19_FindNextFromSelectionEnd ==
    LET from == IF buf.insert > buf.bound THEN buf.insert ELSE buf.bound
        after == OccurrencesFrom(buf.content, sc, from)
        r == SearchContext_find_next(World, -1)
    IN  after # {} => r.out.ok /\ r.out.start = SetMin(after)

\* C20: when Next (the button, Enter in the entry, or the step that ends Replace)
\* has just reported the match M, Replace makes of the content the content with M
\* replaced by the text of the replace entry.
C20_ReplaceReplacesReportedMatch ==
    (out.call = "find_next" /\ out.ok) =>
        on_replace_clicked(World).buf.content =
            InsertAt(RemoveRange(buf.content, out.start, out.end), out.start,
                     win.replaceEntry)

\* C18: the only active file-monitor subscription is that of the buffer shown (no
\* buffer the window has dropped still has one), and none is left once the window
\* is closed.
C18_OnlyShownBufferSubscribed ==
    /\ ~win.leaked
    /\ win.closed => buf.monitor = NoPath

\* C21: replace_all ends for every content, non-empty pattern and replacement, also
\* where the replacement holds the pattern or has another length: it makes as many
\* replacements as the content held non-overlapping occurrences, each starts behind
\* the text the one before has inserted, and the length of the content changes by
\* the difference of the text inserted and the pattern for each of them.
C21_ReplaceAllOncePerOccurrence ==
    sc.text # <<>> =>
        \A t \in AllReplaceTexts :
            LET r == SearchContext_replace_all(World, t)
                inserted == TextOfLength(t, Len(t))
                n == ReferenceCount(buf.content, sc)
                g == IF r.buf.undo = buf.undo THEN <<>> ELSE r.buf.undo[Len(r.buf.undo)]
                dels == SelectSeq(g, LAMBDA x : x.kind = "del")
            IN  /\ Len(dels) = n
                /\ \A k \in 1..(Len(dels) - 1) :
                       dels[k + 1].pos >= dels[k].pos + Len(inserted)
                /\ Len(r.buf.content) =
                       Len(buf.content) + n * (Len(inserted) - Len(sc.text))
                /\ ~Raised(r)

\* Replace All has replaced an occurrence of a pattern of two characters by a text
\* of one.
C21_ReplacedByShorter ==
    /\ out.call = "replace_all"
    /\ out.toast = "Replace all completed"
    /\ Len(sc.text) = 2
    /\ buf.undo # <<>>
    /\ buf.content = <<"b">>

\* C22: find_next from a start offset (the end of the selection, or the cursor, when
\* none is given) reports the first occurrence at or after it with wrapped = FALSE;
\* when there is none and wrap_around is on, the first occurrence of the content,
\* which lies before the start, with wrapped = TRUE; with wrap_around off, or no
\* occurrence at all, nothing.
C22_WrappedOnlyPastEnd ==
    sc.text # <<>> =>
        \A i \in -1..Len(buf.content), wrap \in BOOLEAN :
            LET w == [World EXCEPT !.sc.wrapAround = wrap]
                r == SearchContext_find_next(w, i).out
                sel_end == IF buf.insert > buf.bound THEN buf.insert ELSE buf.bound
                from == IF i = -1 THEN sel_end ELSE i
                after == OccurrencesFrom(buf.content, sc, from)
                all == OccurrencesFrom(buf.content, sc, 0)
            IN  /\ after # {} => r.ok /\ r.start = SetMin(after) /\ ~r.wrapped
                /\ (after = {} /\ wrap /\ all # {}) =>
                       r.ok /\ r.start = SetMin(all) /\ r.start < from /\ r.wrapped
                /\ (after = {} /\ (~wrap \/ all = {})) => ~r.ok /\ ~r.wrapped

\* C23: matching is a literal substring search that honours case_sensitive: after
\* set_search_text(t, cs), find_next from offset 0 reports the first offset where the
\* content holds t, character by character, compared as they are when cs is on and
\* after lowercasing both when it is off.  The searches of the window run with the
\* value the window hands to set_search_text, which is the default, off: Next
\* reports a match exactly when the content holds the entry's text in any case.
C23_LiteralMatchHonoursCase ==
    LET Same(u, t, cs) ==
            \A k \in 1..Len(t) : IF cs THEN u[k] = t[k] ELSE Fold(u[k]) = Fold(t[k])
        Hits(t, cs) ==
            {i \in 0..(Len(buf.content) - Len(t)) :
                 Same(SubSeq(buf.content, i + 1, i + Len(t)), t, cs)}
    IN  /\ \A t \in (SearchTexts \ {<<>>}) \cup {<<"A">>, <<"A", "b">>}, cs \in BOOLEAN :
               LET r == SearchContext_find_next(set_search_text(World, t, cs, TRUE), 0).out
               IN  IF Hits(t, cs) = {} THEN ~r.ok
                   ELSE r.ok /\ r.start = SetMin(Hits(t, cs)) /\ r.end = r.start + Len(t)
        /\ ~sc.caseSensitive
        /\ win.searchEntry # <<>> =>
               LET r == on_search_next_clicked(World).out
               IN  /\ r.ok <=> Hits(win.searchEntry, FALSE) # {}
                   /\ r.ok => r.start \in Hits(win.searchEntry, FALSE)

\* Next has reported a match that differs from the pattern in case.
C23_MatchedOtherCase ==
    /\ out.call = "find_next"
    /\ out.ok
    /\ sc.text = <<"a">>
    /\ buf.content[out.start + 1] = "A"

\* C24: the signal of the file monitor schedules the notification of an external
\* change only when the modification time of the file on disk is greater than the
\* one the buffer knows, and then once: right after a save of the buffer that
\* worked it schedules none, a second signal after it schedules none, and neither
\* the signal nor the notification changes the content, the modified flag or the
\* history of the buffer.
C24_NotifiedOncePerNewerMtime ==
    \A event_type \in EventTypes :
        LET r == on_file_changed(World, event_type)
            newer == /\ buf.filePath # NoPath
                     /\ disk[buf.filePath].exists
                     /\ disk[buf.filePath].mtime > buf.mtime
        IN  /\ r.buf.idle > buf.idle => newer /\ r.buf.idle = buf.idle + 1
            /\ (out.call = "save_file" /\ out.raised = "none") => r.buf.idle = buf.idle
            /\ \A second \in EventTypes : on_file_changed(r, second).buf.idle <= buf.idle + 1
            /\ r.buf.content = buf.content
            /\ r.buf.modified = buf.modified
            /\ r.buf.undo = buf.undo
            /\ r.buf.idle > 0 =>
                   on_file_changed_externally(r).buf = [r.buf EXCEPT !.idle = @ - 1]

\* The buffer's own save has given the file a later modification time, and the
\* signals of that write wait in the main loop.
C24_OwnSaveSignalsPending ==
    /\ out.call = "save_file"
    /\ out.raised = "none"
    /\ buf.events # <<>>
    /\ buf.mtime > 1

\* C25: while the window is open it holds one EditorBuffer and one SearchContext,
\* and the buffer of the SearchContext, the buffer of the EditorBuffer and the buffer
\* the text view shows are the same object.
C25_OneBufferOneSearchContext ==
    ~win.closed =>
        /\ win.hasBuffer
        /\ sc.exists
        /\ sc.buffer = "cur"
        /\ win.view = "cur"

\* C26: once the window is closed, no timer set by a 'save' answer runs its
\* follow-up on it (_create_new_file, _show_open_dialog, _do_close), so that _do_close
\* runs once at most: from a closed window no timer is taken and nothing changes.
C26_NoFollowUpAfterClose ==
    [][win.closed => (win'.timers = win.timers /\ buf' = buf /\ win' = win)]_vars

\* C27: at most one unsaved-changes dialog waits for its response, and a new, open or
\* close request that arrives while one waits opens no second dialog and runs no
\* follow-up: it leaves the dialogs, the buffer and the window as they are.
C27_OneDialogAtATime ==
    /\ Len(win.dialogs) <= 1
    /\ (win.dialogs # <<>> /\ ~win.closed) =>
           \A r \in {on_new_file(World), on_open_file(World), check_and_close(World)} :
               /\ r.win.dialogs = win.dialogs
               /\ r.win.openDlg = win.openDlg
               /\ r.win.closed = win.closed
               /\ r.buf = buf

\* C28: after a save that worked (save or save-as, also the first save of an
\* untitled buffer) the file monitor of the buffer watches the file the buffer is
\* now bound to, so that a write to that file by another program brings a signal
\* and a write to the file it was bound to before brings none.
C28_MonitorFollowsFilePath ==
    (out.call = "save_file" /\ out.raised = "none") =>
        /\ buf.filePath # NoPath
        /\ buf.monitor = buf.filePath
        /\ \A p \in Paths :
               LET r == FsNotify([World EXCEPT !.buf.events = <<>>], p, <<"CHANGED">>)
               IN  r.buf.events # <<>> <=> p = buf.filePath

\* What n presses of Next in a row report, from the world w.
RECURSIVE NextPresses(_, _)
NextPresses(w, n) ==
    IF n = 0 THEN <<>>
    ELSE LET r == on_search_next_clicked([w EXCEPT !.out = NoOut])
         IN  <<r.out>> \o NextPresses(r, n - 1)

\* C29: with a pattern that occurs k >= 1 times in the content, presses of Next in a
\* row report the occurrences in the order of their offsets and start again at the
\* first one after the last, with the wrap shown: each press reports the occurrence
\* that follows the one before, k presses report each of the k once, and with k > 1
\* no two presses in a row report the same match.
C29_NextCyclesThroughMatches ==
    LET c == [sc EXCEPT !.text = win.searchEntry, !.caseSensitive = FALSE]
        occ == OccurrencesFrom(buf.content, c, 0)
        k == Cardinality(occ)
        p == NextPresses(World, k + 1)
        Following(i) == IF \E j \in occ : j > i THEN SetMin({j \in occ : j > i})
                        ELSE SetMin(occ)
    IN  (win.searchEntry # <<>> /\ k >= 1) =>
            /\ \A n \in 1..(k + 1) :
                   /\ p[n].ok
                   /\ p[n].start \in occ
                   /\ p[n].end = p[n].start + Len(win.searchEntry)
            /\ \A n \in 1..k :
                   /\ p[n + 1].start = Following(p[n].start)
                   /\ p[n + 1].wrapped <=> p[n + 1].start <= p[n].start
                   /\ p[n + 1].wrapped <=> p[n + 1].toast = "Search wrapped"
                   /\ k > 1 => p[n + 1].start # p[n].start
            /\ {p[n].start : n \in 1..k} = occ

\* Next has wrapped from behind the last of two occurrences to the first.
C29_WrappedToFirstOfTwo ==
    /\ out.call = "find_next"
    /\ out.ok /\ out.wrapped
    /\ out.start = 0
    /\ buf.insert = out.end /\ buf.bound = out.end
    /\ Cardinality(OccurrencesFrom(buf.content, sc, 0)) = 2

\* C30: Replace All with an empty replace entry leaves the buffer as it is (the
\* occurrences are not deleted), calls no replace_all, shows no toast and raises
\* nothing, whatever the content and the pattern.
C30_EmptyReplacementDoesNothing ==
    win.replaceEntry = <<>> =>
        LET r == on_replace_all_clicked(World)
        IN  /\ r.buf = buf
            /\ r.out.call # "replace_all"
            /\ r.out.toast = "none"
            /\ r.out.errorDialog = "none"
            /\ ~Raised(r)

\* Replace All was clicked with an empty replace entry and a pattern that occurs in
\* the content.
C30_ClickedWithEmptyReplacement ==
    /\ out.call = "_on_replace_all_clicked"
    /\ win.replaceEntry = <<>>
    /\ win.searchEntry # <<>>
    /\ OccurrencesFrom(buf.content, sc, 0) # {}

====
